---- MODULE Spec2Model ----
(***************************************************************************)
(* A model of src/bot.py: a Telegram bot that sends uploaded images / PDFs *)
(* to Google Document AI and offers the extracted text (and, on request, a *)
(* summary) in several output formats.                                     *)
(*                                                                         *)
(* Strings are TLA+ strings (TLC evaluates Len, \o and SubSeq on them).    *)
(* The module is ASCII, so every emoji of the source is written as one     *)
(* ASCII character that occurs in no other literal of the source:          *)
(*   "#" is U+274C (cross mark), "@" is U+1F504, "%" is U+1F4DD,           *)
(*   "$" is U+1F4DC, "&" is U+1F4C4, "^" is U+1F4E9, "+" is U+1F44B.       *)
(* Each is one code point, as in Python, so lengths are kept.              *)
(***************************************************************************)
EXTENDS Integers, Sequences, FiniteSets, TLC

VARIABLES
    user_data,    \* context.user_data of each user: a dict from key to string
    downloads,    \* the files under downloads/: path -> content
    outputs,      \* the files under outputs/: path -> file
    last,         \* the event handled last: its inputs and what the handler did
    minted,       \* history: session key -> what send_output_options stored
    menus,        \* history: the menus presented so far
    nUploads,     \* file events handled so far
    nCallbacks,   \* callback events handled so far
    nForged,      \* callbacks handled whose data no button presented to the user carried
    nFaults,      \* handler runs in which the environment made a step fail
    ch_text,      \* send_text_chunks alone: its text argument
    ch_size,      \* send_text_chunks alone: its chunk_size argument
    ch_sent,      \* send_text_chunks alone: the messages sent
    sm_document,  \* summarize_document alone: result.document of the remote call
    sm_returned   \* summarize_document alone: the values returned, none or one

vars == <<user_data, downloads, outputs, last, minted, menus, nUploads,
          nCallbacks, nForged, nFaults, ch_text, ch_size, ch_sent,
          sm_document, sm_returned>>

----------------------------------------------------------------------------
(* Bounds of the model. *)

MaxUploads == 2
MaxEvents == 3
MaxForged == 1
MaxFaults == 1
MaxTextLen == 1
MaxEntities == 1
MaxChunkText == 4
MaxChunkSize == 3
MaxSummaryEntities == 3

Users == {"u1", "u2"}

----------------------------------------------------------------------------
(* Python's str operations. *)

Cross == "#"

StartsWith(s, p) == Len(s) >= Len(p) /\ SubSeq(s, 1, Len(p)) = p

EndsWith(s, p) == Len(s) >= Len(p) /\ SubSeq(s, Len(s) - Len(p) + 1, Len(s)) = p

\* p in s
Contains(s, p) == \E i \in 1..(Len(s) - Len(p) + 1) : SubSeq(s, i, i + Len(p) - 1) = p

IsSpace(c) == c \in {" ", "\n", "\t", "\r"}

\* s.strip(): from the first character that is no white space to the last
Strip(s) ==
    LET kept == {i \in 1..Len(s) : ~IsSpace(SubSeq(s, i, i))}
    IN  IF kept = {} THEN ""
        ELSE SubSeq(s, CHOOSE i \in kept : \A j \in kept : i <= j,
                       CHOOSE i \in kept : \A j \in kept : j <= i)

\* s.split(d), d one character: the parts between the occurrences of d
Split(s, d) ==
    LET at == {i \in 1..Len(s) : SubSeq(s, i, i) = d}
        Nth(k) == IF k = 0 THEN 0
                  ELSE IF k > Cardinality(at) THEN Len(s) + 1
                  ELSE CHOOSE i \in at : Cardinality({j \in at : j < i}) = k - 1
    IN  [k \in 1..(Cardinality(at) + 1) |-> SubSeq(s, Nth(k - 1) + 1, Nth(k) - 1)]

\* dict.get(key, default)
Get(d, key, default) == IF key \in DOMAIN d THEN d[key] ELSE default

\* d[key] = value
Put(d, key, value) == [k \in DOMAIN d \cup {key} |-> IF k = key THEN value ELSE d[k]]

----------------------------------------------------------------------------
(* The texts the bot sends. *)

MsgProcessing == "@ Processing file, please wait..."
MsgUnsupported == "# Unsupported file format."
MsgNoText == "# No text recognized."
MsgNoSummary == "# No summary could be generated."
MsgDocumentError == "# An error occurred while processing the document. Please try again!"
MsgRetrieveText == "# Error retrieving processed text."
MsgNoSourceFile == "# Cannot find the original file for summarization."
MsgSummarizing == "@ Summarizing document, please wait..."
MsgRetrieveSummary == "# Error retrieving summary."
MsgInvalidOption == "# Invalid option."
MsgChoiceError == "# An error occurred while processing your selection."
MsgChoose == "% Choose an output format:"
MsgChooseSummary == "% Choose an output format for the summary:"
HeaderText == "$ **Extracted Text:**\n\n"
HeaderSummary == "% **Document Summary:**\n\n"

----------------------------------------------------------------------------
(* Session keys: str(uuid.uuid4())[:8], eight hexadecimal digits.  uuid4   *)
(* is taken to return a value it has not returned before; which of the     *)
(* unused values it returns does not matter to the code, which only        *)
(* compares and concatenates keys, so it returns the first unused one.     *)
(* The pool holds one key more than there are uploads: a key stays unused. *)

KeyLen == 8

HexDigits == "0123456789abcdef0123456789abcdef"

Key(i) == SubSeq(HexDigits, i + 1, i + KeyLen)

KeyPool == {Key(i) : i \in 0..MaxUploads}

\* the value uuid4 returns next, given those it has returned and that are in use
uuid4(issued) == {Key(Cardinality(issued))}

----------------------------------------------------------------------------
(* Files. *)

\* open(path, "w", encoding="utf-8").write(text), as read back in "rb" mode
TextFile(text) == [format |-> "txt", text |-> text]

\* Document(); add_paragraph(text); save(path)
DocxFile(text) == [format |-> "docx", paragraphs |-> <<text>>]

\* the MIME type process_document and summarize_document detect: "" is the else branch
MimeType(file_path) ==
    IF EndsWith(file_path, ".jpg") \/ EndsWith(file_path, ".jpeg") \/ EndsWith(file_path, ".png")
    THEN "image/jpeg"
    ELSE IF EndsWith(file_path, ".pdf") THEN "application/pdf"
    ELSE ""

----------------------------------------------------------------------------
(* send_text_chunks: the messages range(0, len(text), chunk_size) sends. *)

\* text[i : i + chunk_size] for the k-th i of range(0, len(text), chunk_size)
Chunk(text, chunk_size, k) ==
    LET i == (k - 1) * chunk_size
    IN  SubSeq(text, i + 1, IF i + chunk_size < Len(text) THEN i + chunk_size ELSE Len(text))

\* RangeLen with the last, shorter chunk forgotten
RangeLenFloor(n, step) == n \div step

\* len(range(0, n, step))
RangeLen(n, step) == (n + step - 1) \div step

ChunkSize == 4096

send_text_chunks(text, chunk_size) ==
    [k \in 1..RangeLen(Len(text), chunk_size) |-> Chunk(text, chunk_size, k)]

----------------------------------------------------------------------------
(* A handler is the sequence of steps its code takes on given inputs, each *)
(* a record named by "op":                                                 *)
(*   answer    query.answer()                                              *)
(*   download  get_file and download_to_drive: writes downloads/           *)
(*   set       context.user_data[key] = value                              *)
(*   reply     reply_text(text)                                            *)
(*   menu      reply_text(text, reply_markup): keyboard is the rows of     *)
(*             callback_data strings                                       *)
(*   read      open(path, "rb").read() of a downloaded file                *)
(*   remote    client.process_document on the bytes read last              *)
(*   write     a file written under outputs/                               *)
(*   document  reply_document of the file at path, under filename          *)
(*   raise     an exception the code raises itself                         *)
(* Run executes them against the store and the two directories.            *)

\* process_document with the remote call made before the format is looked at
process_documentCallsFirst(file_path, result_text) ==
    [steps |-> <<[op |-> "read", path |-> file_path],
                 [op |-> "remote", role |-> "extraction", mime_type |-> MimeType(file_path),
                  text |-> result_text]>>,
     value |-> IF MimeType(file_path) = "" THEN MsgUnsupported
               ELSE IF Strip(result_text) # "" THEN result_text ELSE MsgNoText]

\* document.text of the extraction result, or the sentinel (lines 44-64)
process_document(file_path, result_text) ==
    IF MimeType(file_path) = ""
    THEN [steps |-> <<[op |-> "read", path |-> file_path]>>, value |-> MsgUnsupported]
    ELSE [steps |-> <<[op |-> "read", path |-> file_path],
                      [op |-> "remote", role |-> "extraction", mime_type |-> MimeType(file_path),
                       text |-> result_text]>>,
          value |-> IF Strip(result_text) # "" THEN result_text ELSE MsgNoText]

RECURSIVE SummaryOf(_, _)
SummaryOf(entities, i) ==
    IF i > Len(entities) THEN ""
    ELSE (IF entities[i].type_ = "summary" THEN entities[i].mention_text \o "\n" ELSE "")
         \o SummaryOf(entities, i + 1)

\* ChosenText falling back to the document text whenever the summary is blank
ChosenTextFallsBackOnBlank(document) ==
    LET summary == SummaryOf(document.entities, 1)
    IN  IF Strip(summary) = "" THEN document.text ELSE summary

\* the text summarize_document takes from the remote result (lines 94-101)
ChosenText(document) ==
    LET summary == SummaryOf(document.entities, 1)
    IN  IF summary = "" THEN document.text ELSE summary

\* SummaryText without the check for a blank text
SummaryTextUnchecked(document) == ChosenText(document)

\* what summarize_document returns for it (line 103)
SummaryText(document) ==
    IF Strip(ChosenText(document)) # "" THEN ChosenText(document) ELSE MsgNoSummary

summarize_document(file_path, document) ==
    IF MimeType(file_path) = ""
    THEN [steps |-> <<[op |-> "read", path |-> file_path]>>, value |-> MsgUnsupported]
    ELSE [steps |-> <<[op |-> "read", path |-> file_path],
                      [op |-> "remote", role |-> "summarization", mime_type |-> MimeType(file_path),
                       text |-> ChosenText(document)]>>,
          value |-> SummaryText(document)]

\* save_as_docx(text, file_name), then the document sent from the path it returns
save_as_docx(text, file_name) == [op |-> "write", path |-> "outputs/" \o file_name, file |-> DocxFile(text)]

\* one reply_text per chunk
SendChunks(text) ==
    LET chunks == send_text_chunks(text, ChunkSize)
    IN  [i \in 1..Len(chunks) |-> [op |-> "reply", text |-> chunks[i]]]

PrimaryKeyboard(text_key) ==
    << <<"output_message|" \o text_key, "output_txt|" \o text_key>>,
       <<"output_both|" \o text_key, "output_docx|" \o text_key>>,
       <<"output_summarize|" \o text_key>> >>

\* SummaryKeyboard with the key of the stored summary on its buttons
SummaryKeyboardCarriesSummaryKey(text_key) ==
    << <<"summary_message|summary_" \o text_key, "summary_txt|summary_" \o text_key>>,
       <<"summary_docx|summary_" \o text_key>> >>

SummaryKeyboard(text_key) ==
    << <<"summary_message|" \o text_key, "summary_txt|" \o text_key>>,
       <<"summary_docx|" \o text_key>> >>

\* send_output_options presenting the menu before it stores the text
send_output_optionsMenuFirst(store, text, text_key) ==
    <<[op |-> "menu", kind |-> "primary", key |-> text_key, text |-> MsgChoose,
       keyboard |-> PrimaryKeyboard(text_key)],
      [op |-> "set", key |-> text_key, value |-> text]>>
    \o (IF "current_file_path" \in DOMAIN store
        THEN <<[op |-> "set", key |-> "file_path_" \o text_key, value |-> store["current_file_path"]]>>
        ELSE <<>>)

\* send_output_options with the key uuid4 gave; store is user_data as the call finds it
send_output_options(store, text, text_key) ==
    <<[op |-> "set", key |-> text_key, value |-> text]>>
    \o (IF "current_file_path" \in DOMAIN store
        THEN <<[op |-> "set", key |-> "file_path_" \o text_key, value |-> store["current_file_path"]]>>
        ELSE <<>>)
    \o <<[op |-> "menu", kind |-> "primary", key |-> text_key, text |-> MsgChoose,
          keyboard |-> PrimaryKeyboard(text_key)]>>

\* file_name of line 149
DownloadPath(is_photo, file_id, doc_name) ==
    IF is_photo THEN "downloads/" \o file_id \o ".jpg" ELSE "downloads/" \o doc_name

\* the try block of handle_document (lines 152-171)
handle_document(store, file_name, content, result_text, text_key) ==
    LET extracted == process_document(file_name, result_text)
    IN  <<[op |-> "download", path |-> file_name, content |-> content],
          [op |-> "set", key |-> "current_file_path", value |-> file_name],
          [op |-> "reply", text |-> MsgProcessing]>>
        \o extracted.steps
        \o (IF Contains(extracted.value, Cross)
            THEN <<[op |-> "reply", text |-> extracted.value]>>
            ELSE send_output_options(Put(store, "current_file_path", file_name),
                                     extracted.value, text_key))

\* the key a summary is stored under (lines 213 and 231)
SummaryKey(text_key) == "summary_" \o text_key

\* SummarizeChoice with the summary stored under the session key itself
SummarizeChoiceOverwrites(store, text_key, document) ==
    LET file_path == Get(store, "file_path_" \o text_key, "")
        summary == summarize_document(file_path, document)
    IN  IF file_path = ""
        THEN <<[op |-> "reply", text |-> MsgNoSourceFile]>>
        ELSE <<[op |-> "reply", text |-> MsgSummarizing]>>
             \o summary.steps
             \o (IF Contains(summary.value, Cross)
                 THEN <<[op |-> "reply", text |-> summary.value]>>
                 ELSE <<[op |-> "set", key |-> text_key, value |-> summary.value],
                        [op |-> "menu", kind |-> "summary", key |-> text_key,
                         text |-> MsgChooseSummary, keyboard |-> SummaryKeyboard(text_key)]>>)

\* the "output_summarize" branch (lines 195-227)
SummarizeChoice(store, text_key, document) ==
    LET file_path == Get(store, "file_path_" \o text_key, "")
        summary == summarize_document(file_path, document)
    IN  IF file_path = ""
        THEN <<[op |-> "reply", text |-> MsgNoSourceFile]>>
        ELSE <<[op |-> "reply", text |-> MsgSummarizing]>>
             \o summary.steps
             \o (IF Contains(summary.value, Cross)
                 THEN <<[op |-> "reply", text |-> summary.value]>>
                 ELSE <<[op |-> "set", key |-> SummaryKey(text_key), value |-> summary.value],
                        [op |-> "menu", kind |-> "summary", key |-> text_key,
                         text |-> MsgChooseSummary, keyboard |-> SummaryKeyboard(text_key)]>>)

\* the option.startswith("summary_") branch (lines 230-257)
SummaryChoice(store, option, text_key) ==
    LET summary == Get(store, SummaryKey(text_key), "")
        summary_path == "outputs/summary_" \o text_key \o ".txt"
        docx == save_as_docx(summary, "summary_" \o text_key \o ".docx")
    IN  IF summary = ""
        THEN <<[op |-> "reply", text |-> MsgRetrieveSummary]>>
        ELSE <<[op |-> "write", path |-> summary_path, file |-> TextFile(summary)]>>
             \o (IF option = "summary_message" THEN SendChunks(HeaderSummary \o summary)
                 ELSE IF option = "summary_txt"
                 THEN <<[op |-> "document", path |-> summary_path,
                         filename |-> "document_summary.txt"]>>
                 ELSE IF option = "summary_docx"
                 THEN <<docx, [op |-> "document", path |-> docx.path,
                               filename |-> "document_summary.docx"]>>
                 ELSE <<>>)

\* PrimaryChoice with the text file sent under the name it has on disk
PrimaryChoiceLeaksKey(option, text_key, extracted_text) ==
    LET txt_path == "outputs/" \o text_key \o ".txt"
        txt == [op |-> "document", path |-> txt_path, filename |-> text_key \o ".txt"]
        docx == save_as_docx(extracted_text, text_key \o ".docx")
    IN  <<[op |-> "write", path |-> txt_path, file |-> TextFile(extracted_text)]>>
        \o (IF option = "output_message" THEN SendChunks(HeaderText \o extracted_text)
            ELSE IF option = "output_txt" THEN <<txt>>
            ELSE IF option = "output_both"
            THEN SendChunks(HeaderText \o extracted_text) \o <<txt>>
            ELSE IF option = "output_docx"
            THEN <<docx, [op |-> "document", path |-> docx.path,
                          filename |-> "extracted_text.docx"]>>
            ELSE <<[op |-> "reply", text |-> MsgInvalidOption]>>)

\* the original options (lines 259-285)
PrimaryChoice(option, text_key, extracted_text) ==
    LET txt_path == "outputs/" \o text_key \o ".txt"
        txt == [op |-> "document", path |-> txt_path, filename |-> "extracted_text.txt"]
        docx == save_as_docx(extracted_text, text_key \o ".docx")
    IN  <<[op |-> "write", path |-> txt_path, file |-> TextFile(extracted_text)]>>
        \o (IF option = "output_message" THEN SendChunks(HeaderText \o extracted_text)
            ELSE IF option = "output_txt" THEN <<txt>>
            ELSE IF option = "output_both"
            THEN SendChunks(HeaderText \o extracted_text) \o <<txt>>
            ELSE IF option = "output_docx"
            THEN <<docx, [op |-> "document", path |-> docx.path,
                          filename |-> "extracted_text.docx"]>>
            ELSE <<[op |-> "reply", text |-> MsgInvalidOption]>>)

\* handle_output_choice: query.answer(), then the try block (lines 180-285)
handle_output_choice(store, data, document) ==
    LET parts == Split(data, "|")
        option == parts[1]
        text_key == parts[2]
        extracted_text == Get(store, text_key, "")
    IN  <<[op |-> "answer"]>>
        \o (IF Len(parts) # 2 THEN <<[op |-> "raise", error |-> "ValueError"]>>
            ELSE IF extracted_text = "" THEN <<[op |-> "reply", text |-> MsgRetrieveText]>>
            ELSE IF option = "output_summarize" THEN SummarizeChoice(store, text_key, document)
            ELSE IF StartsWith(option, "summary_") THEN SummaryChoice(store, option, text_key)
            ELSE PrimaryChoice(option, text_key, extracted_text))

----------------------------------------------------------------------------
(* Running a handler.  The environment makes at most one step fail: the    *)
(* one at fail_at (0: none); a read or a send of a file that is not there  *)
(* fails by itself.  Assigning to the dict cannot fail.                    *)

Fails(step, i, fail_at, st) ==
    \/ step.op = "raise"
    \/ i = fail_at /\ step.op # "set"
    \/ step.op = "read" /\ step.path \notin DOMAIN st.downloads
    \/ step.op = "document" /\ step.path \notin DOMAIN st.outputs

\* the step as it happened: a remote call with the bytes it sent, a document
\* with the file it sent
Done(step, st) ==
    IF step.op = "remote"
    THEN [op |-> "remote", role |-> step.role, mime_type |-> step.mime_type,
          content |-> st.bytes, text |-> step.text]
    ELSE IF step.op = "document"
    THEN [op |-> "document", filename |-> step.filename, path |-> step.path,
          file |-> st.outputs[step.path]]
    ELSE step

Effect(step, st) ==
    LET st1 == [st EXCEPT !.log = Append(st.log, Done(step, st))]
    IN  IF step.op = "download"
        THEN [st1 EXCEPT !.downloads = Put(st.downloads, step.path, step.content)]
        ELSE IF step.op = "set" THEN [st1 EXCEPT !.store = Put(st.store, step.key, step.value)]
        ELSE IF step.op = "read" THEN [st1 EXCEPT !.bytes = st.downloads[step.path]]
        ELSE IF step.op = "write"
        THEN [st1 EXCEPT !.outputs = Put(st.outputs, step.path, step.file)]
        ELSE st1

RECURSIVE Run(_, _, _, _)
Run(steps, i, fail_at, st) ==
    IF i > Len(steps) THEN st
    ELSE IF Fails(steps[i], i, fail_at, st) THEN [st EXCEPT !.failed = steps[i].op]
    ELSE Run(steps, i + 1, fail_at, Effect(steps[i], st))

Start(store) ==
    [store |-> store, downloads |-> downloads, outputs |-> outputs, log |-> <<>>,
     bytes |-> "", failed |-> ""]

\* the except clause: the error reply, which may fail as well and then escapes
Except(st, unguarded, message, reply_fails) ==
    IF st.failed = "" THEN [st |-> st, raised |-> FALSE]
    ELSE IF st.failed \in unguarded THEN [st |-> st, raised |-> TRUE]
    ELSE IF reply_fails THEN [st |-> st, raised |-> TRUE]
    ELSE [st |-> [st EXCEPT !.log = Append(st.log, [op |-> "reply", text |-> message])],
          raised |-> FALSE]

----------------------------------------------------------------------------
(* The inputs of the events. *)

\* a photo, or a document with the file name the sender gave it
UploadKinds ==
    {[is_photo |-> TRUE, doc_name |-> ""],
     [is_photo |-> FALSE, doc_name |-> "a.pdf"],
     [is_photo |-> FALSE, doc_name |-> "notes.txt"]}

\* file_id of the n-th file event: the transport gives each a different one
FileId(n) == "AgAD" \o SubSeq("123456789", n, n)

\* the bytes of the file with that file_id
Bytes(file_id) == "bytes of " \o file_id

TextAlphabet == {"a", " ", Cross}

RECURSIVE TextsUpTo(_)
TextsUpTo(n) ==
    IF n = 0 THEN {""}
    ELSE TextsUpTo(n - 1) \cup {t \o c : t \in TextsUpTo(n - 1), c \in TextAlphabet}

\* document.text of an extraction result
ExtractionTexts == TextsUpTo(MaxTextLen)

Entities ==
    {[type_ |-> "summary", mention_text |-> "A"],
     [type_ |-> "summary", mention_text |-> " "],
     [type_ |-> "other", mention_text |-> "z"]}

RECURSIVE EntityLists(_)
EntityLists(n) ==
    IF n = 0 THEN {<<>>}
    ELSE EntityLists(n - 1) \cup {Append(es, e) : es \in EntityLists(n - 1), e \in Entities}

\* result.document of a summarization result
SummarizationResults ==
    {[text |-> t, entities |-> es] : t \in {"", "b", Cross}, es \in EntityLists(MaxEntities)}

NoDocument == [text |-> "", entities |-> <<>>]

Labels ==
    {"output_message", "output_txt", "output_both", "output_docx", "output_summarize",
     "summary_message", "summary_txt", "summary_docx"}

\* the callback_data of the buttons of a keyboard
Flatten(keyboard) == UNION {{keyboard[r][c] : c \in 1..Len(keyboard[r])} : r \in 1..Len(keyboard)}

\* the callback_data of the buttons presented to user u so far
Buttons(u) == UNION {Flatten(m.keyboard) : m \in {x \in menus : x.user = u}}

\* callback data a client can send without a button: any label, any key part
ForgedData ==
    {l \o "|" \o k : l \in Labels \cup {"summary_bogus", "output_pdf"},
                     k \in KeyPool \cup {"current_file_path"}
                           \cup {"summary_" \o x : x \in DOMAIN minted}}
    \cup {"output_txt", "output_txt|" \o Key(0) \o "|x"}

----------------------------------------------------------------------------
(* The bot: Application.run_polling() handles one update to completion     *)
(* before the next (lines 293-300).                                        *)

NoFault == [at |-> 0, reply |-> FALSE]

NoEvent ==
    [handler |-> "none", user |-> "", log |-> <<>>, fault |-> NoFault, failed |-> "",
     raised |-> FALSE]

Init ==
    /\ user_data = [u \in Users |-> <<>>]
    /\ downloads = <<>>
    /\ outputs = <<>>
    /\ last = NoEvent
    /\ minted = <<>>
    /\ menus = {}
    /\ nUploads = 0
    /\ nCallbacks = 0
    /\ nForged = 0
    /\ nFaults = 0
    /\ ch_text = ""
    /\ ch_size = 1
    /\ ch_sent = <<>>
    /\ sm_document = NoDocument
    /\ sm_returned = <<>>

\* the steps the environment can make fail in a run of that many steps
Faults(steps) ==
    {NoFault}
    \cup {[at |-> i, reply |-> b] : i \in {j \in 1..Len(steps) : steps[j].op # "set"},
                                     b \in BOOLEAN}

MenusOf(u, log) ==
    {[user |-> u, kind |-> log[i].kind, key |-> log[i].key, keyboard |-> log[i].keyboard] :
        i \in {j \in 1..Len(log) : log[j].op = "menu"}}

Stored(log, key) == \E i \in 1..Len(log) : log[i].op = "set" /\ log[i].key = key

\* a file event of user u (MessageHandler, line 296)
HandleDocument(u, kind, result_text, text_key) ==
    /\ nUploads < MaxUploads
    /\ LET file_id == FileId(nUploads + 1)
           file_name == DownloadPath(kind.is_photo, file_id, kind.doc_name)
           steps == handle_document(user_data[u], file_name, Bytes(file_id), result_text, text_key)
       IN  \E fault \in Faults(steps) :
             LET out == Except(Run(steps, 1, fault.at, Start(user_data[u])), {},
                               MsgDocumentError, fault.reply)
             IN  /\ user_data' = [user_data EXCEPT ![u] = out.st.store]
                 /\ downloads' = out.st.downloads
                 /\ outputs' = out.st.outputs
                 /\ last' = [handler |-> "handle_document", user |-> u, file_id |-> file_id,
                             file_name |-> file_name, text_key |-> text_key,
                             log |-> out.st.log, fault |-> fault,
                             failed |-> out.st.failed, raised |-> out.raised]
                 /\ minted' = IF Stored(out.st.log, text_key)
                              THEN Put(minted, text_key,
                                       [user |-> u, text |-> result_text, file_id |-> file_id,
                                        file_name |-> file_name])
                              ELSE minted
                 /\ menus' = menus \cup MenusOf(u, out.st.log)
                 /\ nUploads' = nUploads + 1
                 /\ nFaults' = IF fault.at = 0 THEN nFaults ELSE nFaults + 1
    /\ UNCHANGED <<nCallbacks, nForged, ch_text, ch_size, ch_sent, sm_document, sm_returned>>

\* a callback event of user u (CallbackQueryHandler, line 297)
HandleOutputChoice(u, data, document, faulty) ==
    /\ LET steps == handle_output_choice(user_data[u], data, document)
       IN  \E fault \in (IF faulty THEN Faults(steps) ELSE {NoFault}) :
             LET out == Except(Run(steps, 1, fault.at, Start(user_data[u])), {"answer"},
                               MsgChoiceError, fault.reply)
             IN  /\ user_data' = [user_data EXCEPT ![u] = out.st.store]
                 /\ downloads' = out.st.downloads
                 /\ outputs' = out.st.outputs
                 /\ last' = [handler |-> "handle_output_choice", user |-> u, data |-> data,
                             log |-> out.st.log, fault |-> fault,
                             failed |-> out.st.failed, raised |-> out.raised]
                 /\ menus' = menus \cup MenusOf(u, out.st.log)
                 /\ nFaults' = IF fault.at = 0 THEN nFaults ELSE nFaults + 1
    /\ nCallbacks' = nCallbacks + 1
    /\ nForged' = IF data \in Buttons(u) THEN nForged ELSE nForged + 1
    /\ UNCHANGED <<minted, nUploads, ch_text, ch_size, ch_sent, sm_document, sm_returned>>

\* whether the handler reaches the summarization call on that data
Summarizes(u, data) ==
    LET steps == handle_output_choice(user_data[u], data, NoDocument)
    IN  \E i \in 1..Len(steps) : steps[i].op = "remote"

\* a history is followed for MaxEvents events, and no further than its MaxForged-th
\* forged callback or its MaxFaults-th fault
Open == nUploads + nCallbacks < MaxEvents /\ nForged < MaxForged /\ nFaults < MaxFaults

\* a document or a photo arrives
Upload ==
    /\ Open
    /\ \E u \in Users, kind \in UploadKinds, result_text \in ExtractionTexts,
          text_key \in uuid4(DOMAIN minted) :
           HandleDocument(u, kind, result_text, text_key)

\* a user presses a button of a menu the bot sent them
Press ==
    /\ Open
    /\ \E u \in Users : \E data \in Buttons(u) :
        \E document \in (IF Summarizes(u, data) THEN SummarizationResults ELSE {NoDocument}) :
            HandleOutputChoice(u, data, document, TRUE)

\* a client sends callback data no button of theirs carries
Forge ==
    /\ Open
    /\ \E u \in Users : \E data \in ForgedData \ Buttons(u) :
        \E document \in (IF Summarizes(u, data) THEN SummarizationResults ELSE {NoDocument}) :
            HandleOutputChoice(u, data, document, FALSE)

Next == Upload \/ Press \/ Forge

Spec == Init /\ [][Next]_vars

----------------------------------------------------------------------------
(* send_text_chunks alone, on every text and chunk size within the bounds: *)
(* each SendChunk is one turn of its loop, the await of one reply_text.    *)

ChunkAlphabet == {"a", "b", "c"}

RECURSIVE ChunkTexts(_)
ChunkTexts(n) ==
    IF n = 0 THEN {""}
    ELSE ChunkTexts(n - 1) \cup {t \o c : t \in ChunkTexts(n - 1), c \in ChunkAlphabet}

InitChunks ==
    /\ user_data = [u \in Users |-> <<>>]
    /\ downloads = <<>>
    /\ outputs = <<>>
    /\ last = NoEvent
    /\ minted = <<>>
    /\ menus = {}
    /\ nUploads = 0
    /\ nCallbacks = 0
    /\ nForged = 0
    /\ nFaults = 0
    /\ ch_text \in ChunkTexts(MaxChunkText)
    /\ ch_size \in 1..MaxChunkSize
    /\ ch_sent = <<>>
    /\ sm_document = NoDocument
    /\ sm_returned = <<>>

SendChunk ==
    /\ Len(ch_sent) < Len(send_text_chunks(ch_text, ch_size))
    /\ ch_sent' = Append(ch_sent, send_text_chunks(ch_text, ch_size)[Len(ch_sent) + 1])
    /\ UNCHANGED <<user_data, downloads, outputs, last, minted, menus, nUploads, nCallbacks,
                   nForged, nFaults, ch_text, ch_size, sm_document, sm_returned>>

NextChunks == SendChunk

SpecChunks == InitChunks /\ [][NextChunks]_vars

----------------------------------------------------------------------------
(* summarize_document on its own: one call on a file of a supported        *)
(* format, for every result the remote call can give within the bounds.    *)

\* document.entities of a summarization result
MentionEntities ==
    {[type_ |-> "summary", mention_text |-> "A"],
     [type_ |-> "summary", mention_text |-> "B"],
     [type_ |-> "summary", mention_text |-> " "],
     [type_ |-> "summary", mention_text |-> ""],
     [type_ |-> "other", mention_text |-> "z"]}

RECURSIVE MentionLists(_)
MentionLists(n) ==
    IF n = 0 THEN {<<>>}
    ELSE MentionLists(n - 1)
         \cup {Append(es, e) : es \in MentionLists(n - 1), e \in MentionEntities}

\* result.document
SummaryDocuments ==
    {[text |-> t, entities |-> es] :
        t \in {"", " ", "b"}, es \in MentionLists(MaxSummaryEntities)}

SupportedPaths == {"downloads/a.pdf", "downloads/AgAD1.jpg"}

InitSummary ==
    /\ user_data = [u \in Users |-> <<>>]
    /\ downloads = <<>>
    /\ outputs = <<>>
    /\ last = NoEvent
    /\ minted = <<>>
    /\ menus = {}
    /\ nUploads = 0
    /\ nCallbacks = 0
    /\ nForged = 0
    /\ nFaults = 0
    /\ ch_text = ""
    /\ ch_size = 1
    /\ ch_sent = <<>>
    /\ sm_document \in SummaryDocuments
    /\ sm_returned = <<>>

Summarize ==
    /\ sm_returned = <<>>
    /\ \E file_path \in SupportedPaths :
          sm_returned' = <<summarize_document(file_path, sm_document).value>>
    /\ UNCHANGED <<user_data, downloads, outputs, last, minted, menus, nUploads, nCallbacks,
                   nForged, nFaults, ch_text, ch_size, ch_sent, sm_document>>

NextSummary == Summarize

SpecSummary == InitSummary /\ [][NextSummary]_vars

----------------------------------------------------------------------------
(* What the claims speak of, read off the event handled last. *)

IsUpload == last.handler = "handle_document"
IsCallback == last.handler = "handle_output_choice"

\* the callback data as the handler parses it
WellFormed == IsCallback /\ Len(Split(last.data, "|")) = 2
Option == Split(last.data, "|")[1]
KeyPart == Split(last.data, "|")[2]

\* nothing failed in the run
Clean == last.failed = ""

Ops(op) == {i \in 1..Len(last.log) : last.log[i].op = op}
Sent(text) == \E i \in Ops("reply") : last.log[i].text = text

\* the user got something: a text, a menu or a document
Answered == Ops("reply") \cup Ops("menu") \cup Ops("document") # {}

\* key is a session key send_output_options minted for user u
MintedFor(u, key) == key \in DOMAIN minted /\ minted[key].user = u

----------------------------------------------------------------------------
(* C1: a callback whose key part was never minted as a session key for the *)
(* user gets the retrieval-error message; the handler writes no file under *)
(* outputs/, makes no remote call and does not raise.                      *)
C1_StaleKeyIsRejected ==
    (WellFormed /\ ~MintedFor(last.user, KeyPart))
        => /\ Sent(MsgRetrieveText)
           /\ Ops("write") = {}
           /\ Ops("remote") = {}
           /\ ~last.raised

(* C2: a callback whose label is none of the recognised ones gets the      *)
(* "Invalid option" reply, and never no reply at all.  Stated for the      *)
(* callbacks on which every lookup of the handler succeeds (the key part   *)
(* is the user's session key, and the summary of that key is stored), so   *)
(* that no other error message is due.                                     *)
C2_UnknownLabelIsAnswered ==
    (/\ WellFormed
     /\ Option \notin Labels
     /\ MintedFor(last.user, KeyPart)
     /\ ("summary_" \o KeyPart) \in DOMAIN user_data[last.user])
        => Sent(MsgInvalidOption) /\ Answered

(* C3: when the extraction call returns text that is not blank and nothing *)
(* fails, handle_document stores the text and the source path under the    *)
(* key it minted and presents the primary menu of five buttons.            *)
C3_TextGetsMenu ==
    (IsUpload /\ Clean)
        => \A i \in Ops("remote") :
              Strip(last.log[i].text) # ""
                  => /\ Get(user_data[last.user], last.text_key, "") = last.log[i].text
                     /\ Get(user_data[last.user], "file_path_" \o last.text_key, "")
                            = last.file_name
                     /\ \E m \in Ops("menu") :
                           /\ last.log[m].kind = "primary"
                           /\ last.log[m].key = last.text_key
                           /\ Cardinality(Flatten(last.log[m].keyboard)) = 5

(* C4: "Summarize" on the menu of session key K sends to the summarizer    *)
(* the bytes of the file whose extraction produced the text of K, whatever *)
(* was uploaded since.                                                     *)
C4_SummarizesTheSessionsFile ==
    (WellFormed /\ MintedFor(last.user, KeyPart))
        => \A i \in Ops("remote") :
              last.log[i].role = "summarization"
                  => last.log[i].content = Bytes(minted[KeyPart].file_id)

\* the texts sent by reply_text, in the order sent, joined
RECURSIVE JoinFrom(_, _)
JoinFrom(texts, i) == IF i > Len(texts) THEN "" ELSE texts[i] \o JoinFrom(texts, i + 1)
Join(texts) == JoinFrom(texts, 1)

RECURSIVE RepliesFrom(_)
RepliesFrom(i) ==
    IF i > Len(last.log) THEN ""
    ELSE (IF last.log[i].op = "reply" THEN last.log[i].text ELSE "") \o RepliesFrom(i + 1)

Documents == {last.log[i].file : i \in Ops("document")}

\* what a primary output of text t consists of
Renders(option, t) ==
    /\ option \in {"output_message", "output_both"} => RepliesFrom(1) = HeaderText \o t
    /\ option \in {"output_txt", "output_both"} => Documents = {TextFile(t)}
    /\ option = "output_docx" => Documents = {DocxFile(t)}

(* C5: the text send_output_options stored under a session key is what    *)
(* the store holds under that key in every later state, and what every     *)
(* later primary output of that key renders; a key not minted yet is in no *)
(* store.                                                                  *)
C5_PrimaryTextIsImmutable ==
    /\ \A k \in DOMAIN minted :
          /\ k \in DOMAIN user_data[minted[k].user]
          /\ user_data[minted[k].user][k] = minted[k].text
    /\ \A k \in KeyPool \ DOMAIN minted : \A u \in Users : k \notin DOMAIN user_data[u]
    /\ (/\ WellFormed /\ Clean /\ MintedFor(last.user, KeyPart)
        /\ Option \in {"output_message", "output_txt", "output_both", "output_docx"})
           => Renders(Option, minted[KeyPart].text)

\* a text file of a key is delivered after that key was summarized
C5_Witness ==
    /\ WellFormed /\ Clean /\ MintedFor(last.user, KeyPart)
    /\ Option = "output_both"
    /\ ("summary_" \o KeyPart) \in DOMAIN user_data[last.user]
    /\ Documents # {}

(* C6: a failure raised by a step of a handler is caught in the handler    *)
(* and turned into the handler's error message; it does not escape.        *)
(* Stated for the runs in which one step fails and the error reply itself  *)
(* can be sent.                                                            *)
C6_FailureIsCaught ==
    (last.failed # "" /\ ~last.fault.reply)
        => /\ ~last.raised
           /\ Sent(IF IsUpload THEN MsgDocumentError ELSE MsgChoiceError)

\* an upload whose file is neither an image nor a PDF by its name, handled without failure
UnsupportedUpload == IsUpload /\ Clean /\ MimeType(last.file_name) = ""

(* C7 as claimed: an upload of an unsupported format is answered with the  *)
(* unsupported-format notice, makes no remote call and leaves the user's   *)
(* store exactly as it was.                                                *)
C7_UnsupportedChangesNothing ==
    [][UnsupportedUpload'
          => /\ Sent(MsgUnsupported)'
             /\ Ops("remote")' = {}
             /\ user_data' = user_data]_vars

(* C7, amended: an upload of an unsupported format is answered with the    *)
(* unsupported-format notice, makes no remote call and changes nothing in  *)
(* any store but the user's "current_file_path" entry, which becomes the   *)
(* path the file was saved under.                                          *)
C7_UnsupportedSetsOnlyCurrentPath ==
    [][UnsupportedUpload'
          => /\ Sent(MsgUnsupported)'
             /\ Ops("remote")' = {}
             /\ user_data' = [user_data EXCEPT ![last'.user] =
                                 Put(user_data[last'.user], "current_file_path",
                                     last'.file_name)]]_vars

\* an unsupported file arrives from a user who has a session
C7_Witness == UnsupportedUpload /\ \E k \in DOMAIN minted : minted[k].user = last.user

(* C8: when the extraction or the summarization call yields blank text,    *)
(* the user gets the no-text or no-summary notice, no menu is presented    *)
(* and nothing is stored for it; no store ever holds a sentinel notice.    *)
C8_BlankResultStoresNothing ==
    /\ (IsUpload /\ Clean)
          => \A i \in Ops("remote") :
                Strip(last.log[i].text) = ""
                    => /\ Sent(MsgNoText)
                       /\ Ops("menu") = {}
                       /\ \A j \in Ops("set") : last.log[j].key = "current_file_path"
                       /\ last.text_key \notin DOMAIN user_data[last.user]
    /\ (IsCallback /\ Clean)
          => \A i \in Ops("remote") :
                Strip(last.log[i].text) = ""
                    => /\ Sent(MsgNoSummary)
                       /\ Ops("menu") = {}
                       /\ Ops("set") = {}
    /\ \A u \in Users : \A k \in DOMAIN user_data[u] :
          user_data[u][k] \notin {MsgNoText, MsgNoSummary, MsgUnsupported}

\* a summarization whose "summary" entity is blank
C8_Witness ==
    /\ IsCallback /\ Clean
    /\ \E i \in Ops("remote") : last.log[i].text = " \n"
    /\ Sent(MsgNoSummary)

\* the least k with k * c >= n
CeilDiv(n, c) == CHOOSE k \in 0..n : k * c >= n /\ (k = 0 \/ (k - 1) * c < n)

\* the loop of send_text_chunks has ended
ChunksDone == Len(ch_sent) = Len(send_text_chunks(ch_text, ch_size))

(* C9: send_text_chunks sends ceil(len(T)/C) messages, none longer than C, *)
(* one after the other, and joined in the order sent they are T.           *)
C9_ChunksReproduceText ==
    /\ \A i \in 1..Len(ch_sent) : Len(ch_sent[i]) \in 1..ch_size
    /\ Join(ch_sent) = SubSeq(ch_text, 1, Len(Join(ch_sent)))
    /\ Len(ch_sent) <= CeilDiv(Len(ch_text), ch_size)
    /\ ChunksDone => /\ Join(ch_sent) = ch_text
                     /\ Len(ch_sent) = CeilDiv(Len(ch_text), ch_size)

\* a text sent in two chunks, the last one shorter
C9_Witness ==
    /\ ChunksDone
    /\ Len(ch_sent) = 2
    /\ Len(ch_sent[2]) < ch_size

\* the name a file-delivery choice gives the document it sends
PublicName(option) ==
    CASE option \in {"output_txt", "output_both"} -> "extracted_text.txt"
      [] option = "output_docx" -> "extracted_text.docx"
      [] option = "summary_txt" -> "document_summary.txt"
      [] option = "summary_docx" -> "document_summary.docx"

(* C10: a file-delivery choice on a session key sends one document, under  *)
(* the fixed name of its kind, which does not contain the key, and holding *)
(* exactly the stored artifact: the text for output_*, the summary for     *)
(* summary_*.                                                              *)
C10_FileHasPublicNameAndArtifact ==
    (/\ WellFormed /\ Clean /\ MintedFor(last.user, KeyPart)
     /\ Option \in {"output_txt", "output_both", "output_docx", "summary_txt", "summary_docx"}
     /\ StartsWith(Option, "summary_") => ("summary_" \o KeyPart) \in DOMAIN user_data[last.user])
        => LET artifact == IF StartsWith(Option, "summary_")
                           THEN user_data[last.user]["summary_" \o KeyPart]
                           ELSE user_data[last.user][KeyPart]
           IN  /\ Cardinality(Ops("document")) = 1
               /\ \A i \in Ops("document") :
                     /\ last.log[i].filename = PublicName(Option)
                     /\ ~Contains(last.log[i].filename, KeyPart)
                     /\ last.log[i].file = IF EndsWith(Option, "_docx") THEN DocxFile(artifact)
                                           ELSE TextFile(artifact)

\* the summary is delivered as a Word file
C10_Witness ==
    /\ WellFormed /\ Clean /\ MintedFor(last.user, KeyPart)
    /\ Option = "summary_docx"
    /\ Ops("document") # {}

(* C11: a summary stored for a session key is never changed by a later     *)
(* event, a second "Summarize" on the same menu included.                  *)
C11_SummaryIsNeverRewritten ==
    [][\A u \in Users : \A k \in DOMAIN user_data[u] :
          StartsWith(k, "summary_")
              => k \in DOMAIN user_data'[u] /\ user_data'[u][k] = user_data[u][k]]_vars

(* C12: the key a summary is stored under is derived from the session key  *)
(* so that, for two different key parts K1 and K2 that callback data can   *)
(* carry, derive(K1) differs from derive(K2) and from K2: the key part     *)
(* looked up for a callback is never the summary entry of another key.     *)
C12_DerivedKeyIsNoOtherKey ==
    WellFormed
        => \A k1 \in DOMAIN minted :
              k1 # KeyPart
                  => /\ SummaryKey(k1) = SummaryKey(k1)
                     /\ SummaryKey(k1) # SummaryKey(KeyPart)
                     /\ SummaryKey(k1) # KeyPart

\* the entities typed "summary", in document order
SummaryEntities(document) == SelectSeq(document.entities, LAMBDA e : e.type_ = "summary")

\* their mention texts, each followed by a newline
MentionLines(document) ==
    Join([i \in 1..Len(SummaryEntities(document)) |->
             SummaryEntities(document)[i].mention_text \o "\n"])

Blank(s) == \A i \in 1..Len(s) : IsSpace(SubSeq(s, i, i))

(* C13: summarize_document returns the mention texts of the entities typed *)
(* "summary", in document order, each followed by a newline; it takes the  *)
(* whole-document text instead exactly when there is no such entity; and   *)
(* it returns the no-summary notice when the text so chosen is blank.      *)
C13_SummaryIsTheSummaryEntities ==
    \A i \in 1..Len(sm_returned) :
        LET chosen == IF Len(SummaryEntities(sm_document)) = 0
                      THEN sm_document.text
                      ELSE MentionLines(sm_document)
        IN  sm_returned[i] = IF Blank(chosen) THEN MsgNoSummary ELSE chosen

\* entities A, B with another between them give "A\nB\n", though the
\* document has a text of its own
C13_Witness ==
    /\ sm_returned = <<"A\nB\n">>
    /\ Len(sm_document.entities) = 3
    /\ sm_document.text = "b"

(* C14: in every run of a handler, failed ones included, the remote        *)
(* extraction call comes after the "processing" message and the remote     *)
(* summarization call after the "summarizing" message; a menu is presented *)
(* only after the call it belongs to has returned and its result has been  *)
(* stored under the key the menu carries.                                  *)
C14_AckThenCallThenStoreThenMenu ==
    /\ \A i \in Ops("remote") :
          \E j \in Ops("reply") :
              /\ j < i
              /\ last.log[j].text = IF last.log[i].role = "extraction" THEN MsgProcessing
                                    ELSE MsgSummarizing
    /\ \A m \in Ops("menu") :
          \E i \in Ops("remote") : \E s \in Ops("set") :
              /\ i < s /\ s < m
              /\ last.log[i].role = IF last.log[m].kind = "primary" THEN "extraction"
                                    ELSE "summarization"
              /\ last.log[s].key = IF last.log[m].kind = "primary" THEN last.log[m].key
                                   ELSE SummaryKey(last.log[m].key)
              /\ last.log[s].value = last.log[i].text
              /\ user_data[last.user][last.log[s].key] = last.log[i].text

\* a summary menu has been presented
C14_Witness ==
    /\ IsCallback
    /\ \E m \in Ops("menu") : last.log[m].kind = "summary"
    /\ Sent(MsgSummarizing)

\* what the store of the user a menu was presented to holds under a key
Held(m, key) == Get(user_data[m.user], key, "")

(* C15: every button of every menu presented so far carries the key of the *)
(* menu, and that key resolves: for a primary menu the store of the user   *)
(* holds a non-empty text and a source path, for a summary menu a          *)
(* non-empty summary; so a press of a presented button by the user it was  *)
(* presented to never ends in the stale-key, missing-source or             *)
(* missing-summary reply.                                                  *)
C15_PresentedButtonsResolve ==
    /\ \A m \in menus :
          /\ \A b \in Flatten(m.keyboard) :
                Len(Split(b, "|")) = 2 /\ Split(b, "|")[2] = m.key
          /\ m.kind = "primary" => Held(m, m.key) # "" /\ Held(m, "file_path_" \o m.key) # ""
          /\ m.kind = "summary" => Held(m, SummaryKey(m.key)) # ""
    /\ (IsCallback /\ last.data \in Buttons(last.user))
          => /\ ~Sent(MsgRetrieveText)
             /\ ~Sent(MsgNoSourceFile)
             /\ ~Sent(MsgRetrieveSummary)

\* a button of a summary menu is pressed and answered with the summary
C15_Witness ==
    /\ WellFormed /\ Clean
    /\ last.data \in Buttons(last.user)
    /\ Option = "summary_message"
    /\ \E i \in Ops("reply") :
          last.log[i].text = HeaderSummary \o user_data[last.user][SummaryKey(KeyPart)]

\* the contents of the files a user has uploaded and got a session for
UploadsOf(u) == {Bytes(minted[k].file_id) : k \in {x \in DOMAIN minted : minted[x].user = u}}

(* C16: what a press of a user's own button sends to the remote summarizer *)
(* comes from a file that user uploaded, whatever the other user did in    *)
(* between.  Stated for the histories in which every upload so far led to  *)
(* a session, so that the sessions minted record every upload and its      *)
(* uploader.                                                               *)
C16_SummarizesOwnUploadsOnly ==
    (/\ WellFormed
     /\ last.data \in Buttons(last.user)
     /\ Cardinality(DOMAIN minted) = nUploads)
        => \A i \in Ops("remote") : last.log[i].content \in UploadsOf(last.user)

====
